---- MODULE Spec2Model ----
(***************************************************************************)
(* A model of automation/link_heightmaps.py: the tool that searches the    *)
(* directories of a glTF document's images for heightmap files and links   *)
(* them into the document's materials as KHR_materials_displacement.       *)
(*                                                                         *)
(* Strings are modelled exactly, as sequences of one-character strings.    *)
(* The state holds them interned (as TLA+ strings); Text maps an interned  *)
(* string to its characters, and every string operation of the source      *)
(* (Path.name, Path.suffix, re.findall, re.sub, str.lower,                 *)
(* SequenceMatcher.ratio, the ordering of paths) is computed on the        *)
(* characters.  glTF indices are 0-based, as in the document.              *)
(***************************************************************************)
EXTENDS Integers, Sequences, FiniteSets, TLC

(***************************************************************************)
(* Characters and strings                                                  *)
(***************************************************************************)

\* The interned strings of the model and their characters.
Text ==
  [ s \in {"a/c.png", "b/c.png", "a/w.png", "a/disp.png", "b/disp.png",
           "a/c disp.png", "a/c%20disp.png", "c.png", "w.png", "disp.png",
           "c disp.png",
           "a", "b", "", ".png", ".jpg", ".exr", ".bmp",
           "null", "c", "w",
           "y", "yes", "Yes", "abort", "no",
           "a/c.tga", "a/disp.tga", "c.tga", "disp.tga", ".tga",
           "a/Disp.png", "Disp.png"} |->
      CASE s = "a/c.png"     -> <<"a", "/", "c", ".", "p", "n", "g">>
        [] s = "b/c.png"     -> <<"b", "/", "c", ".", "p", "n", "g">>
        [] s = "a/w.png"     -> <<"a", "/", "w", ".", "p", "n", "g">>
        [] s = "a/disp.png"  -> <<"a", "/", "d", "i", "s", "p", ".", "p", "n", "g">>
        [] s = "b/disp.png"  -> <<"b", "/", "d", "i", "s", "p", ".", "p", "n", "g">>
        [] s = "a/c disp.png" ->
             <<"a", "/", "c", " ", "d", "i", "s", "p", ".", "p", "n", "g">>
        [] s = "a/c%20disp.png" ->
             <<"a", "/", "c", "%", "2", "0", "d", "i", "s", "p", ".", "p", "n", "g">>
        [] s = "c.png"       -> <<"c", ".", "p", "n", "g">>
        [] s = "w.png"       -> <<"w", ".", "p", "n", "g">>
        [] s = "disp.png"    -> <<"d", "i", "s", "p", ".", "p", "n", "g">>
        [] s = "c disp.png"  -> <<"c", " ", "d", "i", "s", "p", ".", "p", "n", "g">>
        [] s = "a"           -> <<"a">>
        [] s = "b"           -> <<"b">>
        [] s = ""            -> <<>>
        [] s = ".png"        -> <<".", "p", "n", "g">>
        [] s = ".jpg"        -> <<".", "j", "p", "g">>
        [] s = ".exr"        -> <<".", "e", "x", "r">>
        [] s = ".bmp"        -> <<".", "b", "m", "p">>
        [] s = "null"        -> <<"n", "u", "l", "l">>
        [] s = "c"           -> <<"c">>
        [] s = "w"           -> <<"w">>
        [] s = "y"           -> <<"y">>
        [] s = "yes"         -> <<"y", "e", "s">>
        [] s = "Yes"         -> <<"Y", "e", "s">>
        [] s = "abort"       -> <<"a", "b", "o", "r", "t">>
        [] s = "no"          -> <<"n", "o">>
        [] s = "a/c.tga"     -> <<"a", "/", "c", ".", "t", "g", "a">>
        [] s = "a/disp.tga"  -> <<"a", "/", "d", "i", "s", "p", ".", "t", "g", "a">>
        [] s = "c.tga"       -> <<"c", ".", "t", "g", "a">>
        [] s = "disp.tga"    -> <<"d", "i", "s", "p", ".", "t", "g", "a">>
        [] s = ".tga"        -> <<".", "t", "g", "a">>
        [] s = "a/Disp.png"  -> <<"a", "/", "D", "i", "s", "p", ".", "p", "n", "g">>
        [] s = "Disp.png"    -> <<"D", "i", "s", "p", ".", "p", "n", "g">> ]

Strings == DOMAIN Text

\* The interned string with the given characters.
Intern(chars) == CHOOSE s \in Strings : Text[s] = chars

\* ord(): the code points of the characters that occur.
Ord(c) ==
  CASE c = " " -> 32  [] c = "$" -> 36  [] c = "%" -> 37  [] c = "." -> 46  [] c = "/" -> 47  [] c = "D" -> 68
    [] c = "H" -> 72  [] c = "_" -> 95  [] c = "a" -> 97  [] c = "b" -> 98
    [] c = "c" -> 99  [] c = "d" -> 100 [] c = "e" -> 101 [] c = "g" -> 103
    [] c = "h" -> 104 [] c = "i" -> 105 [] c = "j" -> 106 [] c = "l" -> 108
    [] c = "m" -> 109 [] c = "n" -> 110 [] c = "p" -> 112 [] c = "r" -> 114
    [] c = "s" -> 115 [] c = "t" -> 116 [] c = "u" -> 117 [] c = "w" -> 119
    [] c = "x" -> 120 [] c = "0" -> 48  [] c = "2" -> 50

\* str.lower() of one character.
LowerChar(c) ==
  CASE c = "D" -> "d" [] c = "H" -> "h" [] c = "Y" -> "y" [] OTHER -> c

\* str.lower()
Lower(s) == [i \in 1..Len(s) |-> LowerChar(s[i])]

\* s[i:j] of Python, on 1-based positions: the characters i..j-1.
Slice(s, i, j) == [k \in 1..(j - i) |-> s[i + k - 1]]

\* Whether word occurs in s at position i.
OccursAt(word, s, i) ==
  /\ i + Len(word) - 1 <= Len(s)
  /\ \A k \in 1..Len(word) : s[i + k - 1] = word[k]

\* Lexicographic comparison of two strings by code point (str.__lt__).
RECURSIVE StrLess(_, _)
StrLess(s, t) ==
  IF t = <<>> THEN FALSE
  ELSE IF s = <<>> THEN TRUE
  ELSE IF s[1] # t[1] THEN Ord(s[1]) < Ord(t[1])
  ELSE StrLess(Tail(s), Tail(t))

(***************************************************************************)
(* pathlib: paths are strings relative to the document's directory         *)
(* (filepath.parent), with "/" between the parts.                          *)
(***************************************************************************)

\* The position of the last "/" of s, 0 when there is none.
LastSlash(s) ==
  LET at == {i \in 1..Len(s) : s[i] = "/"}
  IN  IF at = {} THEN 0 ELSE CHOOSE i \in at : \A j \in at : j <= i

\* PurePath.name: the last part.
NameChars(s) == Slice(s, LastSlash(s) + 1, Len(s) + 1)

\* PurePath.parent: the parts before the last one ("" is the document's
\* directory itself).
ParentChars(s) == IF LastSlash(s) = 0 THEN <<>> ELSE Slice(s, 1, LastSlash(s))

\* PurePath.suffix: the name from its last ".", when that is neither its
\* first nor its last character.
SuffixChars(s) ==
  LET name == NameChars(s)
      at   == {i \in 1..Len(name) : name[i] = "."}
      i    == IF at = {} THEN 0 ELSE CHOOSE x \in at : \A y \in at : y <= x
  IN  IF 1 < i /\ i < Len(name) THEN Slice(name, i, Len(name) + 1) ELSE <<>>

\* dir / file
JoinChars(dir, file) == IF dir = <<>> THEN file ELSE dir \o <<"/">> \o file

\* PurePath.parts
RECURSIVE Parts(_)
Parts(s) ==
  LET at == {i \in 1..Len(s) : s[i] = "/"}
      i  == CHOOSE x \in at : \A y \in at : x <= y
  IN  IF at = {} THEN <<s>>
      ELSE <<Slice(s, 1, i)>> \o Parts(Slice(s, i + 1, Len(s) + 1))

\* list.__lt__ on lists of strings.
RECURSIVE PartsLess(_, _)
PartsLess(ps, qs) ==
  IF qs = <<>> THEN FALSE
  ELSE IF ps = <<>> THEN TRUE
  ELSE IF ps[1] # qs[1] THEN StrLess(ps[1], qs[1])
  ELSE PartsLess(Tail(ps), Tail(qs))

\* The paths of the model's files, and the uris of its images.
Paths == {"a/c.png", "b/c.png", "a/w.png", "a/disp.png", "b/disp.png",
          "a/c disp.png", "null", "a/c.tga", "a/disp.tga", "a/Disp.png"}
Uris  == (Paths \ {"a/c disp.png"}) \cup {"a/c%20disp.png"}

\* The operations on paths, computed once for the model's paths.
NameTable   == [p \in Paths |-> Intern(NameChars(Text[p]))] @@ <<>>
ParentTable == [p \in Paths |-> Intern(ParentChars(Text[p]))] @@ <<>>
SuffixTable == [p \in Paths |-> Intern(SuffixChars(Text[p]))] @@ <<>>
LessTable   == [x \in Paths \X Paths |-> PartsLess(Parts(Text[x[1]]), Parts(Text[x[2]]))]
                 @@ <<>>

PathName(p)   == IF p \in Paths THEN NameTable[p] ELSE Intern(NameChars(Text[p]))
PathParent(p) == IF p \in Paths THEN ParentTable[p] ELSE Intern(ParentChars(Text[p]))
PathSuffix(p) == IF p \in Paths THEN SuffixTable[p] ELSE Intern(SuffixChars(Text[p]))
PathJoin(dir, file) == Intern(JoinChars(Text[dir], Text[file]))

\* PurePath.__lt__: the parts are compared, not the joined string.
PathLess(p, q) ==
  IF p \in Paths /\ q \in Paths THEN LessTable[<<p, q>>]
  ELSE PartsLess(Parts(Text[p]), Parts(Text[q]))

(***************************************************************************)
(* re: the heightmap pattern is an alternation of literal words            *)
(***************************************************************************)

\* args.heightmap_regex, default r'height|disp'.
heightmap_regex ==
  << <<"h", "e", "i", "g", "h", "t">>, <<"d", "i", "s", "p">> >>

\* The first alternative of regex that matches s at position i (0: none);
\* with ignorecase both sides are compared in lower case.
AltAt(regex, s, i, ignorecase) ==
  LET t    == IF ignorecase THEN Lower(s) ELSE s
      hits == {a \in 1..Len(regex) :
                 OccursAt(IF ignorecase THEN Lower(regex[a]) ELSE regex[a], t, i)}
  IN  IF hits = {} THEN 0 ELSE CHOOSE a \in hits : \A b \in hits : a <= b

\* re.findall(regex, s, flags): the non-overlapping matches, left to right.
RECURSIVE FindAllFrom(_, _, _, _)
FindAllFrom(regex, s, i, ignorecase) ==
  IF i > Len(s) THEN <<>>
  ELSE LET a == AltAt(regex, s, i, ignorecase)
       IN  IF a = 0 THEN FindAllFrom(regex, s, i + 1, ignorecase)
           ELSE <<Slice(s, i, i + Len(regex[a]))>>
                  \o FindAllFrom(regex, s, i + Len(regex[a]), ignorecase)

FindAll(regex, s, ignorecase) == FindAllFrom(regex, s, 1, ignorecase)

\* re.search(regex, s, flags) is not None
Search(regex, s, ignorecase) ==
  \E i \in 1..Len(s) : AltAt(regex, s, i, ignorecase) # 0

\* re.sub(regex, repl, s, flags=flags)
RECURSIVE SubFrom(_, _, _, _, _)
SubFrom(regex, repl, s, i, ignorecase) ==
  IF i > Len(s) THEN <<>>
  ELSE LET a == AltAt(regex, s, i, ignorecase)
       IN  IF a = 0 THEN <<s[i]>> \o SubFrom(regex, repl, s, i + 1, ignorecase)
           ELSE repl \o SubFrom(regex, repl, s, i + Len(regex[a]), ignorecase)

Sub(regex, repl, s, ignorecase) == SubFrom(regex, repl, s, 1, ignorecase)

(***************************************************************************)
(* difflib.SequenceMatcher(None, a, b).ratio()                             *)
(***************************************************************************)

\* find_longest_match(alo, ahi, blo, bhi) without junk: the longest block
\* a[i:i+k] = b[j:j+k] inside the two ranges; of the longest ones the one
\* that starts earliest in a, and of those the one earliest in b.  The
\* ranges are half-open, on 1-based positions.
LongestMatch(a, alo, ahi, b, blo, bhi) ==
  LET blocks == {x \in (alo..(ahi - 1)) \X (blo..(bhi - 1)) \X (1..(ahi - alo)) :
                   /\ x[1] + x[3] <= ahi
                   /\ x[2] + x[3] <= bhi
                   /\ \A d \in 0..(x[3] - 1) : a[x[1] + d] = b[x[2] + d]}
      Better(x, y) == \/ x[3] > y[3]
                      \/ x[3] = y[3] /\ x[1] < y[1]
                      \/ x[3] = y[3] /\ x[1] = y[1] /\ x[2] <= y[2]
  IN  IF blocks = {} THEN <<alo, blo, 0>>
      ELSE CHOOSE x \in blocks : \A y \in blocks : Better(x, y)

\* The total size of get_matching_blocks(): the longest match, then the
\* same to its left and to its right.
RECURSIVE MatchSize(_, _, _, _, _, _)
MatchSize(a, alo, ahi, b, blo, bhi) ==
  LET x == LongestMatch(a, alo, ahi, b, blo, bhi)
      i == x[1]
      j == x[2]
      k == x[3]
  IN  IF k = 0 THEN 0
      ELSE k + (IF alo < i /\ blo < j THEN MatchSize(a, alo, i, b, blo, j) ELSE 0)
             + (IF i + k < ahi /\ j + k < bhi
                THEN MatchSize(a, i + k, ahi, b, j + k, bhi) ELSE 0)

\* ratio() = 2.0 * M / T as the exact fraction <<2M, T>>; 1.0 when both
\* strings are empty.
Ratio(a, b) ==
  IF Len(a) + Len(b) = 0 THEN <<1, 1>>
  ELSE <<2 * MatchSize(a, 1, Len(a) + 1, b, 1, Len(b) + 1), Len(a) + Len(b)>>

\* SequenceMatcher(None, a, b).ratio()
Similarity(a, b) == Ratio(a, b)

(***************************************************************************)
(* The glTF document (json.load(gltf)):                                    *)
(*   images    a sequence of [uri]; "" is an image without a uri           *)
(*   textures  a sequence of [source, sampler]                             *)
(*   materials a sequence of [name, slots, extensions, disp]               *)
(* slots are the texture indices of the material's texture slots, in the   *)
(* order of texture_names; extensions says whether the material has an     *)
(* 'extensions' key; disp is <<>> or <<d>>, d the material's               *)
(* KHR_materials_displacement: [factor, offset, index].                    *)
(* A sequence's element with glTF index id is seq[id + 1].                 *)
(***************************************************************************)

At(seq, id) == seq[id + 1]
Ids(seq) == 0..(Len(seq) - 1)

\* The elements of a sequence, as a set.
Range(seq) == {seq[i] : i \in 1..Len(seq)}

\* The sequences that list each element of the set once: the orders in
\* which a Python set may be iterated.
Orders(S) == {o \in [1..Cardinality(S) -> S] : Range(o) = S}

\* The concatenation of a sequence of sequences.
RECURSIVE Flatten(_)
Flatten(seqs) == IF seqs = <<>> THEN <<>> ELSE Head(seqs) \o Flatten(Tail(seqs))

\* f with k mapped to v.
Put(f, k, v) == (k :> v) @@ f

\* urllib.parse.quote: every character but the letters, digits and "_.-~/"
\* becomes its %XX.
QuoteChars(s) ==
  Flatten([i \in 1..Len(s) |->
             CASE s[i] = " " -> <<"%", "2", "0">>
               [] s[i] = "$" -> <<"%", "2", "4">>
               [] s[i] = "%" -> <<"%", "2", "5">>
               [] OTHER      -> <<s[i]>>])

\* urllib.parse.unquote: every %XX becomes its character.
RECURSIVE UnquoteChars(_)
UnquoteChars(s) ==
  IF s = <<>> THEN <<>>
  ELSE IF Len(s) >= 3 /\ s[1] = "%" /\ s[2] = "2" /\ s[3] \in {"0", "4", "5"}
  THEN <<CASE s[3] = "0" -> " " [] s[3] = "4" -> "$" [] s[3] = "5" -> "%">>
         \o UnquoteChars(Slice(s, 4, Len(s) + 1))
  ELSE <<s[1]>> \o UnquoteChars(Tail(s))

QuoteTable   == [p \in Paths |-> Intern(QuoteChars(Text[p]))] @@ <<>>
UnquoteTable == [u \in Uris |-> Intern(UnquoteChars(Text[u]))] @@ <<>>

Quote(path)  == IF path \in Paths THEN QuoteTable[path] ELSE Intern(QuoteChars(Text[path]))
Unquote(uri) == IF uri \in Uris THEN UnquoteTable[uri] ELSE Intern(UnquoteChars(Text[uri]))

\* find_ids(data, 'textures', ['source'], image_id): the textures whose
\* source is the image, in index order.
TextureIdsOf(d, image_id) ==
  Flatten([i \in 1..Len(d.textures) |->
             IF d.textures[i].source = image_id THEN <<i - 1>> ELSE <<>>])

\* find_ids(data, 'materials', texture_names, texture_id): each material
\* once per slot that refers to the texture, in index order.
MaterialIdsOf(d, texture_id) ==
  Flatten([i \in 1..Len(d.materials) |->
             Flatten([k \in 1..Len(d.materials[i].slots) |->
                        IF d.materials[i].slots[k] = texture_id
                        THEN <<i - 1>> ELSE <<>>])])

\* The paths of the document's images: filepath.parent / unquote(uri) for
\* every image that has a uri.
ImagePathsOf(d) ==
  {Unquote(d.images[i].uri) : i \in {j \in 1..Len(d.images) : d.images[j].uri # ""}}

\* image_ids[path]: the last image with that path.
ImageIdsOf(d) ==
  [p \in ImagePathsOf(d) |->
     (CHOOSE i \in 1..Len(d.images) :
        /\ d.images[i].uri # "" /\ Unquote(d.images[i].uri) = p
        /\ \A j \in 1..Len(d.images) :
             (d.images[j].uri # "" /\ Unquote(d.images[j].uri) = p) => j <= i) - 1]

\* The material ids of one image (lines 142-160): those of all its
\* textures, <<>> when it has no texture or no material.
MaterialIdsOfImage(d, image) ==
  LET texture_ids == TextureIdsOf(d, ImageIdsOf(d)[image])
  IN  Flatten([k \in 1..Len(texture_ids) |-> MaterialIdsOf(d, texture_ids[k])])

\* image_material_ids: the images that have a material.
ImageMaterialIdsOf(d) ==
  [p \in {q \in ImagePathsOf(d) : MaterialIdsOfImage(d, q) # <<>>} |->
     MaterialIdsOfImage(d, p)]

\* sampler_id after the loop over the images in the given order: each
\* texture of each image assigns it, so it ends as the sampler of the last
\* texture of the last image that has one, and keeps its old value (<<>>
\* when it was never bound) when no image has a texture.
RECURSIVE SamplerAfter(_, _, _)
SamplerAfter(d, order, old) ==
  IF order = <<>> THEN old
  ELSE LET texture_ids == TextureIdsOf(d, ImageIdsOf(d)[Head(order)])
       IN  SamplerAfter(d, Tail(order),
             IF texture_ids = <<>> THEN old
             ELSE <<At(d.textures, texture_ids[Len(texture_ids)]).sampler>>)

\* heightmapishName(name)
heightmapishName(name) == Search(heightmap_regex, Text[name], TRUE)

HeightmapishTable == [s \in Strings |-> heightmapishName(s)] @@ <<>>

\* os.listdir(dir): the names of the files of the directory.
ListDir(files, dir) == {PathName(f) : f \in {g \in files : PathParent(g) = dir}}

\* image_dirs: the extra paths and the directories of the images.
ImageDirsOf(extra_paths, imgs) == extra_paths \cup {PathParent(p) : p \in imgs}

\* The candidates (lines 163-170): the files of the image directories with a
\* known image suffix that are no image of the document and whose name
\* looks like a heightmap's.
CandidatesOf(files, dirs, imgs, suffixes) ==
  {c \in {PathJoin(x[1], x[2]) :
            x \in {y \in dirs \X {PathName(f) : f \in files} : y[2] \in ListDir(files, y[1])}} :
     /\ PathSuffix(c) \in suffixes
     /\ c \notin imgs
     /\ HeightmapishTable[PathName(c)]}

(***************************************************************************)
(* The Scorer (lines 72-99, 173-192)                                       *)
(***************************************************************************)

\* args.image_name_weight (default 1.0) and args.material_name_weight
\* (default 0.1), in tenths.
image_name_weight == 10
material_name_weight == 1

\* The candidate's path with the heightmap terms replaced (lines 73-77 and
\* 96-97): re.sub is called without re.IGNORECASE.
StrippedTable ==
  [p \in Paths |-> Sub(heightmap_regex, <<"_">>, Text[p], FALSE)] @@ <<>>

StrippedName(candidate) ==
  IF candidate \in Paths THEN StrippedTable[candidate]
  ELSE Sub(heightmap_regex, <<"_">>, Text[candidate], FALSE)

\* len(re.findall(args.heightmap_regex, candidate_name, re.IGNORECASE))
TermCountTable ==
  [p \in Paths |-> Len(FindAll(heightmap_regex, Text[p], TRUE))] @@ <<>>

TermCount(candidate) ==
  IF candidate \in Paths THEN TermCountTable[candidate]
  ELSE Len(FindAll(heightmap_regex, Text[candidate], TRUE))

\* '$'.join(names)
RECURSIVE JoinNames(_)
JoinNames(names) ==
  IF names = <<>> THEN <<>>
  ELSE IF Len(names) = 1 THEN Text[names[1]]
  ELSE Text[names[1]] \o <<"$">> \o JoinNames(Tail(names))

\* heightmapMatchMetric(candidate, image, material_names): the score
\* image_similarity * image_name_weight + material_similarity *
\* material_name_weight + len(heightmap_terms), as the exact fraction
\* <<numerator, denominator>>.
MatchMetric(candidate, image, material_names) ==
  LET heightmap_terms == TermCount(candidate)
      candidate_name  == StrippedName(candidate)
      image_sim       == Similarity(candidate_name, Text[image])
      material_sim    == Similarity(Lower(candidate_name), Lower(JoinNames(material_names)))
  IN  << image_name_weight * image_sim[1] * material_sim[2]
           + material_name_weight * material_sim[1] * image_sim[2]
           + 10 * heightmap_terms * image_sim[2] * material_sim[2],
         10 * image_sim[2] * material_sim[2] >>

\* The scores of the model's paths and material names, computed once.
NameLists == UNION {[1..n -> {"c", "w"}] : n \in 1..2}
MetricTable ==
  [x \in Paths \X Paths \X NameLists |-> MatchMetric(x[1], x[2], x[3])] @@ <<>>

heightmapMatchMetric(candidate, image, material_names) ==
  IF candidate \in Paths /\ image \in Paths /\ material_names \in NameLists
  THEN MetricTable[<<candidate, image, material_names>>]
  ELSE MatchMetric(candidate, image, material_names)

\* SequenceMatcher(None, candidate_name, name).ratio() of line 98, computed
\* once for the model's paths and material names.
NameRatioTable ==
  [x \in Paths \X {"c", "w"} |-> Similarity(StrippedName(x[1]), Text[x[2]])] @@ <<>>

NameRatio(candidate, name) ==
  IF candidate \in Paths /\ name \in {"c", "w"} THEN NameRatioTable[<<candidate, name>>]
  ELSE Similarity(StrippedName(candidate), Text[name])

\* The order of two scores.
MetricLess(x, y) == x[1] * y[2] < y[1] * x[2]
MetricEq(x, y)   == x[1] * y[2] = y[1] * x[2]

\* list.__lt__ on lists of integers.
RECURSIVE IdsLess(_, _)
IdsLess(xs, ys) ==
  IF ys = <<>> THEN FALSE
  ELSE IF xs = <<>> THEN TRUE
  ELSE IF xs[1] # ys[1] THEN xs[1] < ys[1]
  ELSE IdsLess(Tail(xs), Tail(ys))

\* tuple.__lt__ on (metric, candidate, image, material_ids).
MatchLess(x, y) ==
  IF ~MetricEq(x.metric, y.metric) THEN MetricLess(x.metric, y.metric)
  ELSE IF x.candidate # y.candidate THEN PathLess(x.candidate, y.candidate)
  ELSE IF x.image # y.image THEN PathLess(x.image, y.image)
  ELSE IdsLess(x.material_ids, y.material_ids)

\* sorted(): a stable sort, by insertion.
RECURSIVE InsertMatch(_, _)
InsertMatch(sorted, x) ==
  IF sorted = <<>> THEN <<x>>
  ELSE IF MatchLess(x, Head(sorted)) THEN <<x>> \o sorted
  ELSE <<Head(sorted)>> \o InsertMatch(Tail(sorted), x)

RECURSIVE SortMatches(_)
SortMatches(ms) ==
  IF ms = <<>> THEN <<>>
  ELSE InsertMatch(SortMatches(Slice(ms, 1, Len(ms))), ms[Len(ms)])

Reverse(seq) == [i \in 1..Len(seq) |-> seq[Len(seq) + 1 - i]]

\* The matches sorted by their score alone: sorted(matches, key=score),
\* which leaves matches of equal score in the order of the list.
RECURSIVE InsertByMetric(_, _)
InsertByMetric(sorted, x) ==
  IF sorted = <<>> THEN <<x>>
  ELSE IF MetricLess(x.metric, Head(sorted).metric) THEN <<x>> \o sorted
  ELSE <<Head(sorted)>> \o InsertByMetric(Tail(sorted), x)

RECURSIVE SortByMetric(_)
SortByMetric(ms) ==
  IF ms = <<>> THEN <<>>
  ELSE InsertByMetric(SortByMetric(Slice(ms, 1, Len(ms))), ms[Len(ms)])

OrderByMetricOnly(ms) == Reverse(SortByMetric(ms))

\* reversed(sorted(matches)), line 199.
ProcessingOrder(ms) == Reverse(SortMatches(ms))

\* The fake image of --match-materials-only: filepath.parent / "null".
fake_image == "null"

\* The matches of one candidate (lines 175-192): one per image that has
\* materials, in the iteration order of images, then with
\* --match-materials-only one per material with the fake image.
MatchesOfCandidate(cfg, d, image_order, image_material_ids, candidate) ==
  LET names(ids) == [k \in 1..Len(ids) |-> At(d.materials, ids[k]).name]
  IN  Flatten([k \in 1..Len(image_order) |->
                 IF image_order[k] \in DOMAIN image_material_ids
                 THEN LET material_ids == image_material_ids[image_order[k]]
                      IN  << [metric |-> heightmapMatchMetric(candidate, image_order[k],
                                                              names(material_ids)),
                              candidate |-> candidate, image |-> image_order[k],
                              material_ids |-> material_ids] >>
                 ELSE <<>>])
      \o (IF cfg.match_materials_only
          THEN [m \in 1..Len(d.materials) |->
                  [metric |-> heightmapMatchMetric(candidate, fake_image, names(<<m - 1>>)),
                   candidate |-> candidate, image |-> fake_image,
                   material_ids |-> <<m - 1>>]]
          ELSE <<>>)

\* matches (lines 173-192), for the candidates in their iteration order.
MatchesOf(cfg, d, image_order, image_material_ids, candidate_order) ==
  Flatten([k \in 1..Len(candidate_order) |->
             MatchesOfCandidate(cfg, d, image_order, image_material_ids,
                                candidate_order[k])])

\* Whether pair x = <<ratio, id>> sorts after pair y.
PairGreater(x, y) ==
  \/ MetricLess(y[1], x[1])
  \/ MetricEq(x[1], y[1]) /\ x[2] > y[2]

\* orderMaterialSimilarity(candidate, materials, material_ids): the ids by
\* descending (similarity of the material's name to the stripped candidate
\* name, id).
RECURSIVE orderMaterialSimilarity(_, _, _)
orderMaterialSimilarity(candidate, materials, material_ids) ==
  IF material_ids = {} THEN <<>>
  ELSE LET pair(id) == <<NameRatio(candidate, At(materials, id).name), id>>
           first == CHOOSE x \in material_ids :
                      \A y \in material_ids \ {x} : PairGreater(pair(x), pair(y))
       IN  <<first>> \o orderMaterialSimilarity(candidate, materials, material_ids \ {first})

(***************************************************************************)
(* The Greedy Assigner (lines 195-235)                                     *)
(*                                                                         *)
(* The loop's state is a record: unlinked_heightmaps, unlinked_material_ids,*)
(* best_image and warn_multiple_matches as in the source, materials        *)
(* (data['materials'], which the loop changes), the lines printed to       *)
(* stdout and stderr, and raised: the exception that ended the process     *)
(* ("" while none has).                                                    *)
(* A printed line is <<text, heightmap, material name, image>>.            *)
(***************************************************************************)

\* A material tested with the key under another object than extensions:
\* the test is never true.
DisplacementKeyMisplaced(material) == FALSE

\* 'KHR_materials_displacement' in extensions (lines 215 and 254).
HasDisplacement(material) == material.disp # <<>>

\* The path of the image of an existing displacement (lines 217-219).
ExistingImageOf(d, disp) ==
  Unquote(At(d.images, At(d.textures, disp.index).source).uri)

\* The job list entry of line 231.
Job(material_id, material_name, heightmap, image, sampler) ==
  [material_id |-> material_id, material_name |-> material_name,
   heightmap |-> heightmap, image |-> image, sampler_id |-> sampler]

\* The body of the loop of line 207 for the materials of order, from state
\* st, for the match t.
RECURSIVE AssignMaterials(_, _, _, _, _, _)
AssignMaterials(cfg, d, sampler, st, t, order) ==
  IF order = <<>> \/ st.raised # "" THEN st
  ELSE
    LET material_id == Head(order)
        material    == At(st.materials, material_id)
        \* lines 208-214
        st1 == [st EXCEPT !.unlinked_material_ids = @ \cup {material_id},
                          !.materials[material_id + 1].extensions = TRUE]
    IN  IF HasDisplacement(material)
        THEN \* lines 215-227: the material has a displacement already
          IF cfg.quiet THEN AssignMaterials(cfg, d, sampler, st1, t, Tail(order))
          ELSE IF At(d.images, At(d.textures, material.disp[1].index).source).uri = ""
          THEN [st1 EXCEPT !.raised = "TypeError"]
          ELSE
            LET existing_image == ExistingImageOf(d, material.disp[1])
                line == IF t.candidate = existing_image
                        THEN <<"is already assigned to material", t.candidate,
                               material.name, "">>
                        ELSE <<"Not adding: KHR_materials_displacement already exists",
                               t.candidate, material.name, existing_image>>
            IN  AssignMaterials(cfg, d, sampler,
                                [st1 EXCEPT !.stdout = @ \cup {line}], t, Tail(order))
        ELSE IF sampler = <<>>
        THEN \* line 231: sampler_id was never assigned
          [st1 EXCEPT !.raised = "NameError"]
        ELSE
          LET st2 == [st1 EXCEPT
                        !.unlinked_heightmaps =
                           Append(@, Job(material_id, material.name, t.candidate,
                                         t.image, sampler[1])),
                        !.best_image = Put(@, PathName(t.candidate), t.image)]
          IN  IF cfg.match_one_image THEN st2
              ELSE AssignMaterials(cfg, d, sampler, st2, t, Tail(order))

\* Whether the candidate's filename has another image than the match's
\* already (line 201).
Differs(st, t) ==
  /\ PathName(t.candidate) \in DOMAIN st.best_image
  /\ st.best_image[PathName(t.candidate)] # t.image

\* The loop body without `- unlinked_material_ids` on line 207: the
\* materials claimed before are visited again.
AssignMatchKeepsClaimed(cfg, d, sampler, st, t) ==
  IF Differs(st, t) /\ cfg.match_one_image THEN st
  ELSE
    LET st1 == IF Differs(st, t) /\ ~st.warn_multiple_matches
               THEN [st EXCEPT !.warn_multiple_matches = TRUE,
                               !.stderr = @ \cup {<<"Warning: adding the same heightmap multiple times",
                                                    "", "", "">>}]
               ELSE st
    IN  AssignMaterials(cfg, d, sampler, st1, t,
          orderMaterialSimilarity(t.candidate, st1.materials, Range(t.material_ids)))

\* The loop body without the `continue` of line 203: --match-one-image
\* warns like the default does, and goes on.
AssignMatchWarnsOnly(cfg, d, sampler, st, t) ==
  LET st1 == IF Differs(st, t) /\ ~st.warn_multiple_matches
             THEN [st EXCEPT !.warn_multiple_matches = TRUE,
                             !.stderr = @ \cup {<<"Warning: adding the same heightmap multiple times",
                                                  "", "", "">>}]
             ELSE st
  IN  AssignMaterials(cfg, d, sampler, st1, t,
        orderMaterialSimilarity(t.candidate, st1.materials,
                                Range(t.material_ids) \ st1.unlinked_material_ids))

\* The body of the loop of line 199 for one match.
AssignMatch(cfg, d, sampler, st, t) ==
  LET differs == Differs(st, t)
  IN  IF differs /\ cfg.match_one_image THEN st
      ELSE
        LET st1 == IF differs /\ ~st.warn_multiple_matches
                   THEN [st EXCEPT !.warn_multiple_matches = TRUE,
                                   !.stderr = @ \cup {<<"Warning: adding the same heightmap multiple times",
                                                        "", "", "">>}]
                   ELSE st
        IN  AssignMaterials(cfg, d, sampler, st1, t,
              orderMaterialSimilarity(t.candidate, st1.materials,
                                      Range(t.material_ids) \ st1.unlinked_material_ids))

\* The loop of line 199 over the matches in processing order.
RECURSIVE AssignFrom(_, _, _, _, _)
AssignFrom(cfg, d, sampler, st, order) ==
  IF order = <<>> \/ st.raised # "" THEN st
  ELSE AssignFrom(cfg, d, sampler, AssignMatch(cfg, d, sampler, st, Head(order)),
                  Tail(order))

\* The loop's state before the first match (lines 195-198).
AssignerStart(d) ==
  [unlinked_heightmaps |-> <<>>, unlinked_material_ids |-> {},
   best_image |-> <<>>, warn_multiple_matches |-> FALSE,
   materials |-> d.materials, stdout |-> {}, stderr |-> {}, raised |-> ""]

\* Stage 4 (lines 195-235): the matches are processed by descending score.
Assigner(cfg, d, sampler, ms) ==
  AssignFrom(cfg, d, sampler, AssignerStart(d), ProcessingOrder(ms))

\* The loop's states one after the other: before the first match, then
\* after each match the loop processed.
RECURSIVE AssignerStates(_, _, _, _, _)
AssignerStates(cfg, d, sampler, st, order) ==
  IF order = <<>> \/ st.raised # "" THEN <<st>>
  ELSE <<st>> \o AssignerStates(cfg, d, sampler,
                                AssignMatch(cfg, d, sampler, st, Head(order)),
                                Tail(order))

(***************************************************************************)
(* The Document Mutator (lines 237-300)                                    *)
(***************************************************************************)

\* filterMaterialName(material_name): "True", "False", or "NameError": line
\* 102 reads `pattern`, which no scope binds (the generator's variable is
\* `patterrn`), as soon as args.filter has a pattern.
filterMaterialName(cfg, material_name) ==
  IF cfg.filter # {} THEN "NameError"
  ELSE IF /\ cfg.filter_out # {}
          /\ \E pattern \in cfg.filter_out :
               Search(<<Text[pattern]>>, Text[material_name], FALSE)
  THEN "False"
  ELSE "True"

\* The loop of line 246 over the job list.  The state is the document, the
\* flags and maps of the source, and raised as in the Assigner.
RECURSIVE MutateFrom(_, _, _)
MutateFrom(cfg, st, jobs) ==
  IF jobs = <<>> \/ st.raised # "" THEN st
  ELSE
    LET job      == Head(jobs)
        material == At(st.data.materials, job.material_id)
        pass     == filterMaterialName(cfg, job.material_name)
        name     == PathName(job.heightmap)
    IN  IF pass = "NameError" THEN [st EXCEPT !.raised = "NameError"]
        ELSE IF pass = "False" THEN MutateFrom(cfg, st, Tail(jobs))
        ELSE IF HasDisplacement(material)
        THEN \* lines 254-260
          MutateFrom(cfg,
            [st EXCEPT !.data.materials[job.material_id + 1].extensions = TRUE,
                       !.stderr = @ \cup {<<"Error adding: KHR_materials_displacement already exists",
                                            job.heightmap, job.material_name,
                                            At(st.data.images,
                                               At(st.data.textures,
                                                  material.disp[1].index).source).uri>>}],
            Tail(jobs))
        ELSE
          LET fresh == name \notin DOMAIN st.added_texture_map
              \* lines 263-276
              images   == IF fresh
                          THEN Append(st.data.images, [uri |-> Quote(job.heightmap)])
                          ELSE st.data.images
              textures == IF fresh
                          THEN Append(st.data.textures,
                                      [source |-> Len(st.data.images),
                                       sampler |-> job.sampler_id])
                          ELSE st.data.textures
              map      == IF fresh
                          THEN Put(st.added_texture_map, name, Len(st.data.textures))
                          ELSE st.added_texture_map
          IN  MutateFrom(cfg,
                [st EXCEPT
                   !.heightmaps_added = Append(@, job),
                   !.had_changes = TRUE,
                   !.added_texture_map = map,
                   !.data = [images |-> images, textures |-> textures,
                             materials |->
                               [st.data.materials EXCEPT
                                  ![job.material_id + 1].extensions = TRUE,
                                  ![job.material_id + 1].disp =
                                     << [factor |-> cfg.scale, offset |-> cfg.bias,
                                         index |-> map[name]] >>]]],
                Tail(jobs))

\* Stage 5 (lines 237-283).
Mutator(cfg, d, jobs) ==
  MutateFrom(cfg,
             [data |-> d, had_changes |-> FALSE, added_texture_map |-> <<>>,
              heightmaps_added |-> <<>>, stderr |-> {}, raised |-> ""],
             jobs)

\* The loop of line 291 over the template's materials, for the material
\* with index i (1-based) of the document.
RECURSIVE CopyFromOthers(_, _, _)
CopyFromOthers(st, i, others) ==
  IF others = <<>> THEN st
  ELSE
    LET other    == Head(others)
        material == st.data.materials[i]
        disp     == material.disp[1]
    IN  IF /\ other.disp # <<>>
           /\ other.name = material.name
           /\ other.extensions
           /\ (disp.factor # other.disp[1].factor \/ disp.offset # other.disp[1].offset)
        THEN CopyFromOthers(
               [st EXCEPT
                  !.data.materials[i].disp =
                     << [disp EXCEPT !.factor = other.disp[1].factor,
                                     !.offset = other.disp[1].offset] >>,
                  !.stdout = @ \cup {<<"Updating material from source gltf", "",
                                       material.name, "">>},
                  !.had_changes = TRUE],
               i, Tail(others))
        ELSE CopyFromOthers(st, i, Tail(others))

\* The loop of line 286 over the document's materials, from index i.
RECURSIVE CopyFromFrom(_, _, _, _)
CopyFromFrom(cfg, template, st, i) ==
  IF i > Len(st.data.materials) \/ st.raised # "" THEN st
  ELSE
    LET pass == filterMaterialName(cfg, st.data.materials[i].name)
    IN  IF pass = "NameError" THEN [st EXCEPT !.raised = "NameError"]
        ELSE IF pass = "False" \/ st.data.materials[i].disp = <<>>
        THEN CopyFromFrom(cfg, template, st, i + 1)
        ELSE CopyFromFrom(cfg, template,
                          CopyFromOthers(st, i, template.materials), i + 1)

\* The copy_from block (lines 285-300); cfg.copy_from is <<>> or <<template>>.
CopyFromTemplate(cfg, d, changed) ==
  LET st == [data |-> d, had_changes |-> changed, stdout |-> {}, raised |-> ""]
  IN  IF cfg.copy_from = <<>> THEN st
      ELSE CopyFromFrom(cfg, cfg.copy_from[1], st, 1)

(***************************************************************************)
(* The documents, files and command lines the model is checked on          *)
(***************************************************************************)

\* The bounds of the model.
MaxImages    == 2    \* images of a document
MaxMaterials == 2    \* materials of a document
MaxFiles     == 2    \* heightmap files on disk
MaxOptions   == 1    \* command-line options given together
MaxRuns      == 2    \* invocations of the tool in a row

\* The uris of the colour images and the names of the materials, by index.
ColourUris    == <<"a/c.png", "b/c.png", "a/w.png">>
MaterialNames == <<"c", "w", "c">>

\* The heightmap files that may be on disk, and how many at a time.
HeightmapFiles == {"a/disp.png", "b/disp.png", "a/c disp.png"}
DiskContents   == {f \in SUBSET HeightmapFiles : Cardinality(f) <= MaxFiles}

EmptyDocument == [images |-> <<>>, textures |-> <<>>, materials |-> <<>>]

\* A displacement with factor 2.0 and offset 0.0 (numbers are in halves).
Displacement(factor, offset, index) ==
  [factor |-> factor, offset |-> offset, index |-> index]

\* How a document holds its heightmap image: not at all, as the file
\* a/disp.png, or embedded (an image without a uri).
HeightmapKinds == {"none", "file", "embedded"}

\* The document with the first `colours` entries of ColourUris as images,
\* each with one texture of its own sampler; with, unless heightmap is
\* "none", the heightmap image and its texture after them; and with one
\* material per entry of uses: [slots |-> the colour textures of its slots,
\* linked |-> whether it has a displacement already, which then refers to
\* the texture of the heightmap image].
Document(colours, heightmap, uses) ==
  LET uris == [k \in 1..colours |-> ColourUris[k]]
               \o (IF heightmap = "file" THEN <<"a/disp.png">>
                   ELSE IF heightmap = "embedded" THEN <<"">>
                   ELSE <<>>)
  IN  [images    |-> [k \in 1..Len(uris) |-> [uri |-> uris[k]]],
       textures  |-> [k \in 1..Len(uris) |-> [source |-> k - 1, sampler |-> k - 1]],
       materials |-> [k \in 1..Len(uses) |->
                        [name |-> MaterialNames[k],
                         slots |-> Flatten([t \in 1..colours |->
                                              IF (t - 1) \in uses[k].slots
                                              THEN <<t - 1>> ELSE <<>>]),
                         extensions |-> uses[k].linked,
                         disp |-> IF uses[k].linked
                                  THEN <<Displacement(4, 0, colours)>>
                                  ELSE <<>>]]]

Documents ==
  {Document(x[1], x[2], x[3]) :
     x \in {y \in (0..MaxImages) \X HeightmapKinds
                    \X UNION {[1..n -> [slots : SUBSET (0..(MaxImages - 1)),
                                        linked : BOOLEAN]] : n \in 1..MaxMaterials} :
              \A k \in DOMAIN y[3] :
                 /\ y[3][k].slots \subseteq 0..(y[1] - 1)
                 /\ y[3][k].linked => y[2] # "none"
                 /\ y[1] + (IF y[2] = "none" THEN 0 ELSE 1) <= MaxImages}}

\* The options of the command line besides the file names.
Options == {"force", "quiet", "extra_paths", "filter", "filter_out",
            "match_one_image", "match_one_material", "match_materials_only"}

\* The parsed command line with the given options, for the given files.
Arguments(gltf, options, template) ==
  [gltf |-> gltf,
   force |-> "force" \in options,
   quiet |-> "quiet" \in options,
   scale |-> 2,
   bias |-> 0,
   extra_paths |-> IF "extra_paths" \in options THEN {"b"} ELSE {},
   filter |-> IF "filter" \in options THEN {"c"} ELSE {},
   filter_out |-> IF "filter_out" \in options THEN {"w"} ELSE {},
   copy_from |-> template,
   match_one_image |-> "match_one_image" \in options,
   match_one_material |-> "match_one_material" \in options,
   match_materials_only |-> "match_materials_only" \in options]

OptionSets == {o \in SUBSET Options : Cardinality(o) <= MaxOptions}

(***************************************************************************)
(* The program                                                             *)
(*                                                                         *)
(* One behaviour is the tool run from the command line, up to MaxRuns      *)
(* times, with the same arguments on the same files.                       *)
(***************************************************************************)

VARIABLES
  args,                  \* the parsed command line (line 39)
  disk,                  \* the image files on disk, as paths
  fs,                    \* the content of each glTF file on disk
  run,                   \* which invocation of the tool this is
  pc,                    \* where the process is
  idx,                   \* the position in args.gltf of the current document
  imageSuffixes,         \* the module-level set of line 41
  sampler_id,            \* <<>> while unbound, else <<the value>>
  data,                  \* the current document in memory
  images,
  image_material_ids,
  candidates,
  unlinked_heightmaps,   \* the job list
  unlinked_material_ids,
  best_image,
  had_changes,
  heightmaps_added,
  added_texture_map,
  stdout,                \* the lines printed for the current document
  stderr,
  answer,                \* <<>> while unbound, else <<what the user typed, in lower case>>
  loaded,                \* history: the current document as it was loaded
  written,               \* history: the documents written by this invocation
  past                   \* history: what each earlier invocation did

vars == <<args, disk, fs, run, pc, idx, imageSuffixes, sampler_id, data, images,
          image_material_ids, candidates, unlinked_heightmaps,
          unlinked_material_ids, best_image, had_changes, heightmaps_added,
          added_texture_map, stdout, stderr, answer, loaded, written, past>>

\* What the process owns between two stages of one document.
locals == <<images, image_material_ids, candidates, unlinked_heightmaps,
            unlinked_material_ids, best_image, had_changes, heightmaps_added,
            added_texture_map>>

\* What no stage but the prompt changes.
world == <<args, disk, run, past, answer>>

\* The document being processed: `filepath` of line 118.
filepath == args.gltf[idx]

\* Lines 118-160: the document is loaded, its images are collected and the
\* materials of each image are found.  images is a Python set: the loop of
\* line 142 visits it in an order the program does not control.
LoadDocument ==
  /\ pc = "load"
  /\ LET d == fs[filepath]
     IN  /\ data' = d
         /\ loaded' = d
         /\ images' = ImagePathsOf(d)
         /\ imageSuffixes' = imageSuffixes \cup {PathSuffix(p) : p \in ImagePathsOf(d)}
         /\ image_material_ids' = ImageMaterialIdsOf(d)
         /\ \E order \in Orders(ImagePathsOf(d)) :
              sampler_id' = SamplerAfter(d, order, sampler_id)
  /\ stdout' = {}
  /\ stderr' = {}
  /\ pc' = "discover"
  /\ UNCHANGED <<world, fs, idx, candidates, unlinked_heightmaps,
                 unlinked_material_ids, best_image, had_changes, heightmaps_added,
                 added_texture_map, written>>

\* Lines 163-170: the directories of the images are searched.
DiscoverCandidates ==
  /\ pc = "discover"
  /\ candidates' = CandidatesOf(disk, ImageDirsOf(args.extra_paths, images),
                                images, imageSuffixes)
  /\ pc' = "match"
  /\ UNCHANGED <<world, fs, idx, imageSuffixes, sampler_id, data, images,
                 image_material_ids, unlinked_heightmaps, unlinked_material_ids,
                 best_image, had_changes, heightmaps_added, added_texture_map,
                 stdout, stderr, loaded, written>>

\* Lines 173-235: every candidate is scored against every image, the two
\* sets being visited in any order, and the matches are assigned greedily.
\* The images without materials are passed over (line 177): the order of the
\* others is what the list of matches depends on.
Match ==
  /\ pc = "match"
  /\ \E image_order \in Orders(images \cap DOMAIN image_material_ids),
        candidate_order \in Orders(candidates) :
       LET matches == MatchesOf(args, data, image_order, image_material_ids,
                                candidate_order)
           st      == Assigner(args, data, sampler_id, matches)
       IN  /\ unlinked_heightmaps' = st.unlinked_heightmaps
           /\ unlinked_material_ids' = st.unlinked_material_ids
           /\ best_image' = st.best_image
           /\ data' = [data EXCEPT !.materials = st.materials]
           /\ stdout' = stdout \cup st.stdout
           /\ stderr' = stderr \cup st.stderr
           /\ pc' = IF st.raised # "" THEN "raised" ELSE "mutate"
  /\ UNCHANGED <<world, fs, idx, imageSuffixes, sampler_id, images,
                 image_material_ids, candidates, had_changes, heightmaps_added,
                 added_texture_map, loaded, written>>

\* Lines 237-283: the job list is written into the document.
Mutate ==
  /\ pc = "mutate"
  /\ LET st == Mutator(args, data, unlinked_heightmaps)
     IN  /\ data' = st.data
         /\ had_changes' = st.had_changes
         /\ heightmaps_added' = st.heightmaps_added
         /\ added_texture_map' = st.added_texture_map
         /\ stdout' = IF unlinked_heightmaps = <<>> /\ ~args.quiet
                      THEN stdout \cup {<<"No extra heightmaps found", "", "", "">>}
                      ELSE stdout
         /\ stderr' = stderr \cup st.stderr
         /\ pc' = IF st.raised # "" THEN "raised" ELSE "copy"
  /\ UNCHANGED <<world, fs, idx, imageSuffixes, sampler_id, images,
                 image_material_ids, candidates, unlinked_heightmaps,
                 unlinked_material_ids, best_image, loaded, written>>

\* Lines 285-300: scale and bias are copied from the template.
CopyFrom ==
  /\ pc = "copy"
  /\ LET st == CopyFromTemplate(args, data, had_changes)
     IN  /\ data' = st.data
         /\ had_changes' = st.had_changes
         /\ stdout' = stdout \cup st.stdout
         /\ pc' = IF st.raised # "" THEN "raised" ELSE "finish"
  /\ UNCHANGED <<world, fs, idx, imageSuffixes, sampler_id, images,
                 image_material_ids, candidates, unlinked_heightmaps,
                 unlinked_material_ids, best_image, heightmaps_added,
                 added_texture_map, stderr, loaded, written>>

\* The for loop of line 118 goes on to the next document, or ends.
Continue ==
  /\ idx' = idx + 1
  /\ pc' = IF idx + 1 > Len(args.gltf) THEN "done" ELSE "load"

\* Lines 302-304: nothing changed, the file is left alone.
Skip ==
  /\ pc = "finish"
  /\ ~had_changes
  /\ Continue
  /\ UNCHANGED <<world, fs, imageSuffixes, sampler_id, data, locals, stdout,
                 stderr, loaded, written>>

\* The save without the test of line 303: the document is written whether
\* or not it was changed.
SaveUnchanged ==
  /\ pc = "finish"
  /\ args.force
  /\ fs' = [fs EXCEPT ![filepath] = data]
  /\ written' = written \cup {idx}
  /\ Continue
  /\ UNCHANGED <<world, imageSuffixes, sampler_id, data, locals, stdout, stderr,
                 loaded>>

\* Lines 321-323 under --force: the document is written.
Save ==
  /\ pc = "finish"
  /\ had_changes
  /\ args.force
  /\ fs' = [fs EXCEPT ![filepath] = data]
  /\ written' = written \cup {idx}
  /\ Continue
  /\ UNCHANGED <<world, imageSuffixes, sampler_id, data, locals, stdout, stderr,
                 loaded>>

\* What the user may type at the prompt of line 313.
Answers == {"y", "yes", "Yes", "a", "abort", "no", ""}

\* The prompt with `continue` in the place of the `break` of line 317: an
\* abort skips the current document only.
PromptAbortSkipsOne ==
  /\ pc = "finish"
  /\ had_changes
  /\ ~args.force
  /\ \E typed \in Answers :
       LET lowered == Intern(Lower(Text[typed]))
       IN  /\ answer' = <<lowered>>
           /\ IF lowered \in {"y", "yes"}
              THEN /\ fs' = [fs EXCEPT ![filepath] = data]
                   /\ written' = written \cup {idx}
                   /\ Continue
              ELSE /\ Continue
                   /\ UNCHANGED <<fs, written>>
  /\ stdout' = stdout \cup {<<"Write to", "", "", "">>}
                  \cup (IF args.quiet THEN {}
                        ELSE {<<"Found the following heightmaps", "", "", "">>})
  /\ UNCHANGED <<args, disk, run, past, imageSuffixes, sampler_id, data, locals,
                 stderr, loaded>>

\* Lines 306-323 without --force: the heightmaps found are listed (unless
\* quiet), the user is asked 'Write to ...?' and answers; the answer is
\* compared in lower case.
Prompt ==
  /\ pc = "finish"
  /\ had_changes
  /\ ~args.force
  /\ \E typed \in Answers :
       LET lowered == Intern(Lower(Text[typed]))
       IN  /\ answer' = <<lowered>>
           /\ IF lowered \in {"y", "yes"}
              THEN /\ fs' = [fs EXCEPT ![filepath] = data]
                   /\ written' = written \cup {idx}
                   /\ Continue
              ELSE IF lowered \in {"a", "abort"}
              THEN /\ pc' = "done"
                   /\ UNCHANGED <<fs, written, idx>>
              ELSE /\ Continue
                   /\ UNCHANGED <<fs, written>>
  /\ stdout' = stdout \cup {<<"Write to", "", "", "">>}
                  \cup (IF args.quiet THEN {}
                        ELSE {<<"Found the following heightmaps", "", "", "">>})
  /\ UNCHANGED <<args, disk, run, past, imageSuffixes, sampler_id, data, locals,
                 stderr, loaded>>

\* The state of a process that has just parsed its arguments.
Fresh ==
  /\ pc = "load"
  /\ idx = 1
  /\ imageSuffixes = {".png", ".jpg", ".exr", ".bmp"}
  /\ sampler_id = <<>>
  /\ data = EmptyDocument
  /\ loaded = EmptyDocument
  /\ images = {}
  /\ image_material_ids = <<>>
  /\ candidates = {}
  /\ unlinked_heightmaps = <<>>
  /\ unlinked_material_ids = {}
  /\ best_image = <<>>
  /\ had_changes = FALSE
  /\ heightmaps_added = <<>>
  /\ added_texture_map = <<>>
  /\ stdout = {}
  /\ stderr = {}
  /\ answer = <<>>
  /\ written = {}

\* The tool is run again with the same arguments, on the files as the
\* invocation before left them: a new process.
Rerun ==
  /\ pc \in {"done", "raised"}
  /\ run < MaxRuns
  /\ run' = run + 1
  /\ past' = Append(past, [written |-> written, ended |-> pc])
  /\ pc' = "load"
  /\ idx' = 1
  /\ imageSuffixes' = {".png", ".jpg", ".exr", ".bmp"}
  /\ sampler_id' = <<>>
  /\ data' = EmptyDocument
  /\ loaded' = EmptyDocument
  /\ images' = {}
  /\ image_material_ids' = <<>>
  /\ candidates' = {}
  /\ unlinked_heightmaps' = <<>>
  /\ unlinked_material_ids' = {}
  /\ best_image' = <<>>
  /\ had_changes' = FALSE
  /\ heightmaps_added' = <<>>
  /\ added_texture_map' = <<>>
  /\ stdout' = {}
  /\ stderr' = {}
  /\ answer' = <<>>
  /\ written' = {}
  /\ UNCHANGED <<args, disk, fs>>

\* The first invocation, with arguments cfg, on the given files.
Start(cfg, files, gltfs) ==
  /\ args = cfg
  /\ disk = files
  /\ fs = gltfs
  /\ run = 1
  /\ past = <<>>
  /\ Fresh

\* One document, any options, any files; no template.
Init ==
  \E d \in Documents, files \in DiskContents, o \in OptionSets :
     Start(Arguments(<<1>>, o, <<>>), files, <<d>>)

Stage ==
  \/ LoadDocument
  \/ DiscoverCandidates
  \/ Match
  \/ Mutate
  \/ CopyFrom
  \/ Skip
  \/ Save
  \/ Prompt

Next == Stage

\* One invocation of the tool.
Spec == Init /\ [][Next]_vars

\* The invocations that write without asking: --force and at most
\* MaxOptions other options.
InitAgain ==
  \E d \in Documents, files \in DiskContents, o \in OptionSets :
     Start(Arguments(<<1>>, o \cup {"force"}, <<>>), files, <<d>>)

NextAgain ==
  \/ LoadDocument
  \/ DiscoverCandidates
  \/ Match
  \/ Mutate
  \/ CopyFrom
  \/ Skip
  \/ Save
  \/ Rerun

\* The tool invoked MaxRuns times in a row.
SpecAgain == InitAgain /\ [][NextAgain]_vars

\* The materials a template may have, and the templates: with a
\* displacement of factor 3.0 and offset 0.5, with one of factor 2.0 and
\* offset 0.0, or with none.
MaxTemplate == 2    \* materials of a template

TemplateMaterials ==
  {[name |-> n, slots |-> <<>>, extensions |-> e # <<>>, disp |-> e] :
     n \in {"c", "w"},
     e \in {<<>>, <<Displacement(6, 1, 0)>>, <<Displacement(4, 0, 0)>>}}

Templates ==
  {[images |-> <<>>, textures |-> <<>>, materials |-> m] :
     m \in UNION {[1..n -> TemplateMaterials] : n \in 1..MaxTemplate}}

\* The documents and command lines --copy-from is checked on: the images
\* a/c.png and a/disp.png, and the options that the copy step reads.
InitCopy ==
  \E d \in {x \in Documents : \A k \in DOMAIN x.images :
                                 x.images[k].uri \in {"a/c.png", "a/disp.png"}},
     files \in {{}, {"a/c disp.png"}},
     o \in {x \in SUBSET {"force", "filter", "filter_out"} : Cardinality(x) <= MaxOptions},
     template \in Templates :
     Start(Arguments(<<1>>, o, <<template>>), files, <<d>>)

\* One invocation of the tool with --copy-from.
SpecCopy == InitCopy /\ [][Next]_vars

\* Runs over two documents.  The documents: one material on the image
\* a/c.png; the same on the image a/c.tga; one material and no image.  The
\* files: heightmaps of the suffixes .png and .tga in the directory of the
\* images, and one in the extra path.
ManyDocuments ==
  LET one == Document(1, "none", <<[slots |-> {0}, linked |-> FALSE]>>)
  IN  {one,
       [one EXCEPT !.images[1].uri = "a/c.tga"],
       Document(0, "none", <<[slots |-> {}, linked |-> FALSE]>>)}

ManyFiles == {{"a/disp.png"}, {"a/disp.tga"}, {"b/disp.png"}}

ManyOptions == {{}, {"force"}, {"quiet"}, {"match_materials_only", "extra_paths"}}

InitMany ==
  \E d1 \in ManyDocuments, d2 \in ManyDocuments, files \in ManyFiles,
     o \in ManyOptions :
     Start(Arguments(<<1, 2>>, o, <<>>), files, <<d1, d2>>)

\* One invocation of the tool on two documents.
SpecMany == InitMany /\ [][Next]_vars

\* The invocations with --match-one-image and at most MaxOptions other
\* options.
InitOneImage ==
  \E d \in Documents, files \in DiskContents, o \in OptionSets :
     Start(Arguments(<<1>>, o \cup {"match_one_image"}, <<>>), files, <<d>>)

\* One invocation of the tool with --match-one-image.
SpecOneImage == InitOneImage /\ [][Next]_vars

\* The invocations on directories whose heightmap files are named in
\* lower or in upper case: the documents with the image a/c.png, and at
\* most MaxOptions options.
InitNames ==
  \E d \in {x \in Documents : \A k \in DOMAIN x.images : x.images[k].uri = "a/c.png"},
     files \in (SUBSET {"a/disp.png", "a/Disp.png"}) \ {{}},
     o \in OptionSets :
     Start(Arguments(<<1>>, o, <<>>), files, <<d>>)

\* One invocation of the tool on those directories.
SpecNames == InitNames /\ [][Next]_vars

(***************************************************************************)
(* What the properties speak of                                            *)
(***************************************************************************)

\* One order of a set.
AnyOrder(S) == CHOOSE o \in Orders(S) : TRUE

\* The greatest element of a set of numbers.
Max(S) == CHOOSE k \in S : \A j \in S : j <= k

\* The images that have materials: those the matches are built from.
MatchedImages == images \cap DOMAIN image_material_ids

\* The matches of the current document in processing order, and the states
\* of the Assigner's loop over them: TheStates[k] is the state in which the
\* loop comes to TheOrder[k], TheStates[k + 1] the one in which it leaves it.
TheOrder ==
  ProcessingOrder(MatchesOf(args, loaded, AnyOrder(MatchedImages),
                            image_material_ids, AnyOrder(candidates)))

TheStates == AssignerStates(args, loaded, sampler_id, AssignerStart(loaded), TheOrder)

\* An Assignment without its sampler: (material index, material name,
\* candidate, source image).
Assignments(jobs) ==
  {<<j.material_id, j.material_name, j.heightmap, j.image>> : j \in Range(jobs)}

\* The file of the document that is being processed, or was last.
CurrentFile ==
  fs[args.gltf[IF idx > Len(args.gltf) THEN Len(args.gltf) ELSE idx]]

(***************************************************************************)
(* C1  Idempotence                                                         *)
(***************************************************************************)

\* C1: when the invocation before wrote the document, this invocation, with
\* the same arguments on the same files, attaches no extension, leaves
\* had_changes false and does not write the file again.
SecondRunChangesNothing ==
  (run > 1 /\ past[run - 1].written # {}) =>
     /\ heightmaps_added = <<>>
     /\ ~had_changes
     /\ written = {}

(***************************************************************************)
(* C2  One assignment per material                                         *)
(***************************************************************************)

\* C2: at most one Assignment of the job list targets any material index.
OneAssignmentPerMaterial ==
  \A i, j \in DOMAIN unlinked_heightmaps :
     unlinked_heightmaps[i].material_id = unlinked_heightmaps[j].material_id
        => i = j

\* A material of two images has its Assignment, with two candidates found:
\* four matches mention it.
MaterialOfSeveralTuplesAssigned ==
  /\ pc = "mutate"
  /\ Cardinality(candidates) >= 2
  /\ \E j \in Range(unlinked_heightmaps) :
        Cardinality({image \in MatchedImages :
                       j.material_id \in Range(image_material_ids[image])}) >= 2

(***************************************************************************)
(* C3  No overwrite without template                                       *)
(***************************************************************************)

\* C3: without copy_from, a material that has a displacement when the
\* document is loaded keeps its factor, offset and texture index, in memory
\* and in the file.
NoOverwriteWithoutTemplate ==
  (args.copy_from = <<>> /\ pc # "load") =>
     \A i \in DOMAIN loaded.materials :
        loaded.materials[i].disp # <<>> =>
           /\ data.materials[i].disp = loaded.materials[i].disp
           /\ CurrentFile.materials[i].disp = loaded.materials[i].disp

\* The document was written with a new link, and a match had come to a
\* material that had its displacement already.
LinkedMaterialReachedAndFileWritten ==
  /\ pc = "done"
  /\ written # {}
  /\ heightmaps_added # <<>>
  /\ \E i \in DOMAIN loaded.materials :
        /\ loaded.materials[i].disp # <<>>
        /\ (i - 1) \in unlinked_material_ids

(***************************************************************************)
(* C4  Determinism                                                         *)
(***************************************************************************)

\* C4: the set of Assignments the Assigner recorded is the one it records
\* for every order in which the images and the candidates are iterated.
AssignmentsIndependentOfOrder ==
  pc = "mutate" =>
     \A image_order \in Orders(MatchedImages), candidate_order \in Orders(candidates) :
        Assignments(Assigner(args, loaded, sampler_id,
                             MatchesOf(args, loaded, image_order, image_material_ids,
                                       candidate_order)).unlinked_heightmaps)
          = Assignments(unlinked_heightmaps)

\* Two candidates and two images with materials, each in two orders, and
\* an Assignment recorded.
SeveralOrdersAndAnAssignment ==
  /\ pc = "mutate"
  /\ Cardinality(candidates) >= 2
  /\ Cardinality(MatchedImages) >= 2
  /\ unlinked_heightmaps # <<>>

(***************************************************************************)
(* C5  match_one_material                                                  *)
(***************************************************************************)

\* C5: with match_one_material, each candidate is the candidate of at most
\* one Assignment of the document.
OneAssignmentPerCandidate ==
  args.match_one_material =>
     \A i, j \in DOMAIN unlinked_heightmaps :
        unlinked_heightmaps[i].heightmap = unlinked_heightmaps[j].heightmap
           => i = j

(***************************************************************************)
(* C6  match_one_image                                                     *)
(***************************************************************************)

\* C6: with match_one_image, the Assignments whose candidates have the same
\* filename have the same image; and a match whose image is not the one
\* accepted for its candidate's filename adds no Assignment and claims no
\* material.
OneImagePerFilename ==
  args.match_one_image =>
     /\ \A i, j \in DOMAIN unlinked_heightmaps :
           PathName(unlinked_heightmaps[i].heightmap)
             = PathName(unlinked_heightmaps[j].heightmap)
           => unlinked_heightmaps[i].image = unlinked_heightmaps[j].image
     /\ pc = "mutate" =>
          LET states == TheStates
              order  == TheOrder
          IN  /\ states[Len(states)].unlinked_heightmaps = unlinked_heightmaps
              /\ states[Len(states)].unlinked_material_ids = unlinked_material_ids
              /\ \A k \in 1..(Len(states) - 1) :
                    Differs(states[k], order[k]) =>
                       /\ states[k + 1].unlinked_heightmaps = states[k].unlinked_heightmaps
                       /\ states[k + 1].unlinked_material_ids
                            = states[k].unlinked_material_ids

\* A match was passed over for its image, that had a material neither
\* claimed nor linked: without the option it had got an Assignment.
TupleSkippedForAnotherImage ==
  /\ pc = "mutate"
  /\ args.match_one_image
  /\ unlinked_heightmaps # <<>>
  /\ LET states == TheStates
         order  == TheOrder
     IN  \E k \in 1..(Len(states) - 1) :
            /\ Differs(states[k], order[k])
            /\ \E m \in Range(order[k].material_ids) :
                  /\ m \notin states[k].unlinked_material_ids
                  /\ At(loaded.materials, m).disp = <<>>

(***************************************************************************)
(* C7  Shared image, default settings                                      *)
(***************************************************************************)

\* C7: without match_one_image, every material of a processed match that
\* was not claimed and has no displacement has an Assignment of the match's
\* candidate; and after the Mutator the document has one more image and one
\* more texture per filename of the applied Assignments, the materials of
\* one filename having the same texture index.
SharedImageAllLinked ==
  /\ (pc \in {"mutate", "raised"} /\ ~args.match_one_image) =>
        LET states == TheStates
            order  == TheOrder
        IN  \A k \in 1..(Len(states) - 1) :
               \A m \in Range(order[k].material_ids) \ states[k].unlinked_material_ids :
                  At(loaded.materials, m).disp = <<>> =>
                     \E j \in Range(unlinked_heightmaps) :
                        j.material_id = m /\ j.heightmap = order[k].candidate
  /\ pc = "copy" =>
        LET names == {PathName(j.heightmap) : j \in Range(heightmaps_added)}
        IN  /\ Len(data.images) = Len(loaded.images) + Cardinality(names)
            /\ Len(data.textures) = Len(loaded.textures) + Cardinality(names)
            /\ \A i, j \in Range(heightmaps_added) :
                  PathName(i.heightmap) = PathName(j.heightmap) =>
                     At(data.materials, i.material_id).disp[1].index
                       = At(data.materials, j.material_id).disp[1].index

(***************************************************************************)
(* C8  Conflict                                                            *)
(***************************************************************************)

\* C8: when a match comes to a material whose displacement refers to
\* another image than the candidate, a diagnostic about the two is on the
\* error channel, the material has no Assignment, its displacement is as
\* loaded, and the loop goes on.
ConflictReportedAsError ==
  pc \in {"mutate", "raised"} =>
     LET states == TheStates
         order  == TheOrder
     IN  \A k \in 1..(Len(states) - 1) :
            \A m \in states[k + 1].unlinked_material_ids
                       \ states[k].unlinked_material_ids :
               LET material == At(loaded.materials, m)
                   uri      == At(loaded.images,
                                  At(loaded.textures, material.disp[1].index).source).uri
               IN  (material.disp # <<>> /\ (uri = "" \/ Unquote(uri) # order[k].candidate))
                   => /\ \E line \in stderr :
                            line[2] = order[k].candidate /\ line[3] = material.name
                      /\ \A j \in Range(unlinked_heightmaps) : j.material_id # m
                      /\ At(data.materials, m).disp = material.disp
                      /\ states[k + 1].raised = ""

(***************************************************************************)
(* C9  Already linked, same image                                          *)
(***************************************************************************)

\* C9: when a material's displacement refers to a heightmap file that is on
\* disk in a searched directory, and the material has an image, the
\* material has no Assignment, and without --quiet the line that the file
\* is already assigned to the material is printed.
AlreadyAssignedReported ==
  pc = "mutate" =>
     \A i \in DOMAIN loaded.materials :
        LET material == loaded.materials[i]
            uri      == At(loaded.images,
                           At(loaded.textures, material.disp[1].index).source).uri
        IN  (/\ material.disp # <<>>
             /\ uri # ""
             /\ Unquote(uri) \in disk
             /\ PathParent(Unquote(uri)) \in ImageDirsOf(args.extra_paths, images)
             /\ heightmapishName(PathName(Unquote(uri)))
             /\ \E image \in MatchedImages : (i - 1) \in Range(image_material_ids[image]))
            => /\ \A j \in Range(unlinked_heightmaps) : j.material_id # i - 1
               /\ ~args.quiet =>
                    <<"is already assigned to material", Unquote(uri), material.name, "">>
                       \in stdout

(***************************************************************************)
(* C10  Template copy                                                      *)
(***************************************************************************)

\* The name filter as the options define it: the name matches one of the
\* --filter patterns, when there are any, and none of the --filter-out
\* patterns.
PassesFilter(cfg, name) ==
  /\ cfg.filter # {} =>
       \E pattern \in cfg.filter : Search(<<Text[pattern]>>, Text[name], FALSE)
  /\ \A pattern \in cfg.filter_out : ~Search(<<Text[pattern]>>, Text[name], FALSE)

\* The template's materials of the given name that have a displacement.
Namesakes(template, name) ==
  {k \in DOMAIN template.materials :
     /\ template.materials[k].name = name
     /\ template.materials[k].disp # <<>>}

\* Whether factor and offset of the two displacements are the same.
SameValues(x, y) == x.factor = y.factor /\ x.offset = y.offset

\* C10: with a template, the copy step, with or without Assignments, gives
\* every material that passes the name filter, has a displacement and has
\* a namesake with a displacement in the template the factor and offset of
\* that namesake (of the last one, when the template has several); it sets
\* had_changes exactly when it overwrote a value, and changes no texture
\* index.
TemplateCopyApplied ==
  [][(pc = "copy" /\ args.copy_from # <<>>) =>
       LET template == args.copy_from[1]
           due(i) == /\ PassesFilter(args, data.materials[i].name)
                     /\ data.materials[i].disp # <<>>
                     /\ Namesakes(template, data.materials[i].name) # {}
       IN  /\ \A i \in DOMAIN data.materials :
                 due(i) =>
                    /\ pc' = "finish"
                    /\ SameValues(data'.materials[i].disp[1],
                                  template.materials[
                                     Max(Namesakes(template, data.materials[i].name))].disp[1])
           /\ pc' = "finish" =>
                 /\ \A i \in DOMAIN data.materials :
                       /\ (data'.materials[i].disp = <<>>) = (data.materials[i].disp = <<>>)
                       /\ data.materials[i].disp # <<>> =>
                            data'.materials[i].disp[1].index = data.materials[i].disp[1].index
                 /\ had_changes' =
                      (had_changes \/
                         \E i \in DOMAIN data.materials :
                            /\ due(i)
                            /\ \E k \in Namesakes(template, data.materials[i].name) :
                                  ~SameValues(data.materials[i].disp[1],
                                              template.materials[k].disp[1]))
    ]_vars

(***************************************************************************)
(* C11  Written only after a mutation                                      *)
(***************************************************************************)

\* The factor and offset material i (1-based) of the current document had
\* when the copy step came to it: those it was loaded with, or args.scale
\* and args.bias when the Mutator attached its displacement.
ValuesBeforeCopy(i) ==
  IF loaded.materials[i].disp # <<>> THEN loaded.materials[i].disp[1]
  ELSE [factor |-> args.scale, offset |-> args.bias, index |-> 0]

\* Whether the template has a value to overwrite: a material of the
\* document that passes the filter and has a displacement has a namesake
\* with a displacement of another factor or offset.
TemplateValueDiffers ==
  /\ args.copy_from # <<>>
  /\ \E i \in DOMAIN data.materials :
        /\ PassesFilter(args, data.materials[i].name)
        /\ data.materials[i].disp # <<>>
        /\ \E k \in Namesakes(args.copy_from[1], data.materials[i].name) :
              ~SameValues(ValuesBeforeCopy(i), args.copy_from[1].materials[k].disp[1])

\* C11: the file is written only at the end of the document's processing,
\* and when no Assignment was applied and no template value differs, the
\* user is not asked and the file is not written.
WrittenOnlyAfterMutation ==
  [][/\ fs' # fs => (pc = "finish" /\ had_changes)
     /\ (pc = "finish" /\ heightmaps_added = <<>> /\ ~TemplateValueDiffers) =>
          /\ ~had_changes
          /\ fs' = fs
          /\ written' = written
          /\ stdout' = stdout
          /\ answer' = answer
    ]_vars

\* A document was processed to its end with a template whose namesake
\* has the values the material has already: nothing was written.
UnchangedDocumentLeftAlone ==
  /\ pc = "done"
  /\ run = 1
  /\ args.copy_from # <<>>
  /\ heightmaps_added = <<>>
  /\ ~TemplateValueDiffers
  /\ \E i \in DOMAIN data.materials :
        /\ data.materials[i].disp # <<>>
        /\ Namesakes(args.copy_from[1], data.materials[i].name) # {}
  /\ written = {}
  /\ fs[args.gltf[1]] = loaded

(***************************************************************************)
(* C12  The answer at the prompt                                           *)
(***************************************************************************)

\* C12: without --force, the step that asks about a changed document reads
\* an answer; on 'a' or 'abort' nothing is written and the run is over
\* with no later document loaded or asked about; on 'y' or 'yes' the
\* document is written in that step, before the next is loaded; on any
\* other answer it is not written and the run goes on to the next document.
AnswerDecidesTheWrite ==
  /\ []((answer # <<>> /\ answer[1] \in {"a", "abort"}) =>
           (pc = "done" /\ idx <= Len(args.gltf)))
  /\ [][(pc = "finish" /\ had_changes /\ ~args.force) =>
          /\ answer' # <<>>
          /\ LET next == IF idx < Len(args.gltf) THEN "load" ELSE "done"
             IN  CASE answer'[1] \in {"a", "abort"} ->
                        /\ fs' = fs
                        /\ written' = written
                        /\ idx' = idx
                        /\ pc' = "done"
                   [] answer'[1] \in {"y", "yes"} ->
                        /\ fs' = [fs EXCEPT ![filepath] = data]
                        /\ written' = written \cup {idx}
                        /\ idx' = idx + 1
                        /\ pc' = next
                   [] OTHER ->
                        /\ fs' = fs
                        /\ written' = written
                        /\ idx' = idx + 1
                        /\ pc' = next
       ]_vars

\* The user aborted at the first of two documents, after the first was
\* changed in memory: neither file was written.
AbortedAtFirstOfTwo ==
  /\ Len(args.gltf) = 2
  /\ pc = "done"
  /\ idx = 1
  /\ answer = <<"abort">>
  /\ heightmaps_added # <<>>
  /\ written = {}

(***************************************************************************)
(* C13  Independence of documents                                          *)
(***************************************************************************)

\* What a process that has just started finds for the current document:
\* its candidates, with imageSuffixes as line 41 sets it and the document's
\* own images add to it; and the Assigner's last state, with sampler_id
\* bound by this document's own textures only, its images being scanned in
\* the given order.
AloneCandidates ==
  CandidatesOf(disk, ImageDirsOf(args.extra_paths, images), images,
               {".png", ".jpg", ".exr", ".bmp"} \cup {PathSuffix(p) : p \in images})

AloneAssigner(order) ==
  Assigner(args, loaded, SamplerAfter(loaded, order, <<>>),
           MatchesOf(args, loaded, AnyOrder(MatchedImages), image_material_ids,
                     AnyOrder(AloneCandidates)))

\* The document that process has in memory after the Mutator and the copy
\* step.
AloneData(order) ==
  LET assigned == AloneAssigner(order)
      mutated  == Mutator(args, [loaded EXCEPT !.materials = assigned.materials],
                          assigned.unlinked_heightmaps)
  IN  CopyFromTemplate(args, mutated.data, mutated.had_changes).data

\* Whether that process ends with an exception.
AloneRaises(order) ==
  LET assigned == AloneAssigner(order)
      mutated  == Mutator(args, [loaded EXCEPT !.materials = assigned.materials],
                          assigned.unlinked_heightmaps)
  IN  \/ assigned.raised # ""
      \/ mutated.raised # ""
      \/ CopyFromTemplate(args, mutated.data, mutated.had_changes).raised # ""

\* C13: whatever documents were processed before, the candidates found for
\* a document, the Assignments made (or the exception raised) and the
\* content to be written are those of a run that processes it first.
SameAsProcessedFirst ==
  /\ pc \in {"match", "mutate", "copy", "finish"} => candidates = AloneCandidates
  /\ pc = "mutate" =>
        \E order \in Orders(images) :
           /\ AloneAssigner(order).raised = ""
           /\ AloneAssigner(order).unlinked_heightmaps = unlinked_heightmaps
  /\ pc = "raised" => \E order \in Orders(images) : AloneRaises(order)
  /\ pc = "finish" => \E order \in Orders(images) : data = AloneData(order)

(***************************************************************************)
(* C14  The name filter                                                    *)
(***************************************************************************)

\* C14: for the name of every Assignment the filter returns, without
\* raising, whether the name matches an include pattern (or there is none)
\* and no exclude pattern; and the Mutator changes exactly the materials
\* of the Assignments whose names are accepted.
FilterAcceptsAsDefined ==
  [][pc = "mutate" =>
       /\ \A j \in Range(unlinked_heightmaps) :
             filterMaterialName(args, j.material_name)
               = (IF PassesFilter(args, j.material_name) THEN "True" ELSE "False")
       /\ pc' = "copy"
       /\ {j.material_id : j \in Range(heightmaps_added')}
            = {j.material_id : j \in {k \in Range(unlinked_heightmaps) :
                                         PassesFilter(args, k.material_name)}}
       /\ \A i \in DOMAIN data.materials :
             (data'.materials[i].disp # data.materials[i].disp)
               = (\E j \in Range(unlinked_heightmaps) :
                     j.material_id = i - 1 /\ PassesFilter(args, j.material_name))
    ]_vars

(***************************************************************************)
(* C15  The sampler of the new texture                                     *)
(***************************************************************************)

\* The samplers of the textures of the loaded document that refer to the
\* image.
SamplersOfImage(image) ==
  {At(loaded.textures, t).sampler :
     t \in Range(TextureIdsOf(loaded, ImageIdsOf(loaded)[image]))}

\* C15: after the Mutator, for every applied Assignment whose image is an
\* image of the document, the texture the material is linked to has the
\* sampler of a texture of that image.
SamplerOfTheMatchedImage ==
  pc = "copy" =>
     \A j \in Range(heightmaps_added) :
        j.image \in images =>
           At(data.textures, At(data.materials, j.material_id).disp[1].index).sampler
             \in SamplersOfImage(j.image)

(***************************************************************************)
(* C16  Rejected materials and the Assigner                                *)
(***************************************************************************)

\* C16: a material whose name the filter rejects is not claimed by the
\* Assigner and has no Assignment; so with match_one_image, when an
\* Assignment was recorded for a match, no material of that match that
\* the filter accepts and that had no displacement is left without one
\* because a rejected material took the candidate.
RejectedNeverClaimed ==
  pc = "mutate" =>
     /\ \A i \in DOMAIN loaded.materials :
           ~PassesFilter(args, loaded.materials[i].name) =>
              /\ (i - 1) \notin unlinked_material_ids
              /\ \A j \in Range(unlinked_heightmaps) : j.material_id # i - 1
     /\ args.match_one_image =>
           \A j \in Range(unlinked_heightmaps) :
              (~PassesFilter(args, j.material_name)
                 /\ j.image \in DOMAIN image_material_ids) =>
                 ~\E m \in Range(image_material_ids[j.image]) :
                     /\ PassesFilter(args, At(loaded.materials, m).name)
                     /\ At(loaded.materials, m).disp = <<>>
                     /\ \A k \in Range(unlinked_heightmaps) : k.material_id # m

(***************************************************************************)
(* C17  match_one_image: one Assignment per candidate                      *)
(***************************************************************************)

\* C17: with match_one_image, each candidate is the candidate of at most
\* one Assignment of the document, whatever the other options.
OneAssignmentPerCandidateAndImage ==
  args.match_one_image =>
     \A i, j \in DOMAIN unlinked_heightmaps :
        unlinked_heightmaps[i].heightmap = unlinked_heightmaps[j].heightmap
           => i = j

(***************************************************************************)
(* C18  Link fidelity                                                      *)
(***************************************************************************)

\* C18: after the Mutator, the displacement of the material of every
\* applied Assignment refers to a texture whose image has a uri that
\* decodes to the Assignment's candidate.
LinkedToItsOwnCandidate ==
  pc = "copy" =>
     \A j \in Range(heightmaps_added) :
        LET index == At(data.materials, j.material_id).disp[1].index
            uri   == At(data.images, At(data.textures, index).source).uri
        IN  uri # "" /\ Unquote(uri) = j.heightmap

(***************************************************************************)
(* C19  Only the Mutator changes materials                                 *)
(***************************************************************************)

\* Whether material i (1-based) of the current document had an Assignment
\* applied or a template value copied.
Mutated(i) ==
  \/ \E j \in Range(heightmaps_added) : j.material_id = i - 1
  \/ /\ args.copy_from # <<>>
     /\ PassesFilter(args, loaded.materials[i].name)
     /\ loaded.materials[i].disp # <<>>
     /\ \E k \in Namesakes(args.copy_from[1], loaded.materials[i].name) :
           ~SameValues(ValuesBeforeCopy(i), args.copy_from[1].materials[k].disp[1])

\* C19: in a document that was written, every material that had no
\* Assignment applied and no template value copied is as it was loaded,
\* field for field: in particular it has an extensions key only if it had
\* one.
UntouchedMaterialsAsLoaded ==
  (pc = "done" /\ written # {}) =>
     \A i \in DOMAIN loaded.materials :
        ~Mutated(i) => CurrentFile.materials[i] = loaded.materials[i]

(***************************************************************************)
(* C20  Indicator stripping                                                *)
(***************************************************************************)

\* C20: for every candidate found, the name the Scorer and the material
\* ordering compare (the candidate's path with the heightmap terms
\* replaced) has no match of the heightmap pattern, in any case: every
\* term that was counted was replaced.
StrippedNameHasNoTerm ==
  pc \in {"match", "mutate"} =>
     \A candidate \in candidates :
        /\ TermCount(candidate) >= 1
        /\ ~Search(heightmap_regex, StrippedName(candidate), TRUE)
====
